---- MODULE Spec2Model ----
(***************************************************************************)
(* tweakle: an HTTP handler that runs one extract / tweak / load pipeline  *)
(* per request (src/main.go).                                              *)
(*                                                                         *)
(* Three specifications share the variables below:                         *)
(*   Spec        one run of handler(), one action per stage;               *)
(*   SpecFormat  formatMap applied to bounded templates/pattern/content;   *)
(*   SpecCsv     csvHeader applied to bounded byte streams.                *)
(*                                                                         *)
(* Bytes are modelled as tokens: "a" "b" (letters), "COMMA", "LF",         *)
(* "QUOTE", "SP", and the high bytes "EF" "BB" "BF" "BD".  Carriage        *)
(* returns are outside the alphabet.                                       *)
(***************************************************************************)
EXTENDS Integers, Sequences, FiniteSets, TLC

VARIABLES
    pc,        \* position of the handler: "recv", "pre", "fetch", "tweaks", "load", "done"
    d,         \* the decoded request body (PreExtraction, Extraction, Tweaks, Loading)
    e,         \* the Extraction returned by preExtract (d.Extraction after line 218)
    reader,    \* handler's local `reader`: a stream handle, or the nil interface
    ti,        \* index of the next tweak of the range loop
    streams,   \* every byte stream opened so far: data, open?, read?
    resp,      \* responses written to the http.ResponseWriter
    proc,      \* "running", "panicked" (handler goroutine panicked), "exited" (log.Fatal)
    trace,     \* stages executed so far, with their outcome
    httpLog,   \* calls of request(): who, method, url, body, outcome
    applied,   \* calls of Tweak.tweak: the tweak, the reader it got, the reader it returned
    loadIn,    \* readers passed to load()
    table,     \* the destination table: "untouched" or what the load job wrote
    inp,       \* SpecFormat / SpecCsv: the arguments of the function applied
    out        \* SpecFormat / SpecCsv: its result

vars == <<pc, d, e, reader, ti, streams, resp, proc, trace, httpLog, applied,
          loadIn, table, inp, out>>

----------------------------------------------------------------------------
(* Helpers on sequences.                                                   *)

RECURSIVE SeqsUpTo(_, _)
SeqsUpTo(S, n) ==
    IF n = 0 THEN {<<>>}
    ELSE LET shorter == SeqsUpTo(S, n - 1)
         IN  shorter \cup {Append(s, x) : s \in {t \in shorter : Len(t) = n - 1}, x \in S}

\* Index of the first occurrence of x in s, 0 when there is none
\* (bytes.IndexByte / bytes.IndexRune, shifted to 1-based).
RECURSIVE IndexFrom(_, _, _)
IndexFrom(s, x, i) ==
    IF i > Len(s) THEN 0
    ELSE IF s[i] = x THEN i
    ELSE IndexFrom(s, x, i + 1)

IndexOf(s, x) == IndexFrom(s, x, 1)

Drop(s, n) == SubSeq(s, n + 1, Len(s))

----------------------------------------------------------------------------
(* csvHeader (src/main.go:83-100) over a byte stream given as a sequence.  *)
(* encoding/csv is modelled as its Reader.readRecord runs with             *)
(* LazyQuotes = true, Comma = ',', no Comment and no TrimLeadingSpace.     *)
(* csv.NewReader(br) reuses br (bufio.NewReader returns a *bufio.Reader of *)
(* sufficient size as it is), so what the parser consumed is what br lost. *)

BOM == <<"EF", "BB", "BF">>

\* csv.Reader.readLine: the bytes up to and including the next LF, or all
\* that is left before EOF.
ReadLine(s) ==
    LET i == IndexOf(s, "LF")
    IN  IF i = 0 THEN [line |-> s, rest |-> <<>>]
        ELSE [line |-> SubSeq(s, 1, i), rest |-> Drop(s, i)]

lengthNL(line) == IF Len(line) > 0 /\ line[Len(line)] = "LF" THEN 1 ELSE 0

\* readRecord's first loop: lines that hold only the line terminator are skipped.
RECURSIVE SkipEmptyLines(_)
SkipEmptyLines(s) ==
    IF Len(s) > 0 /\ s[1] = "LF" THEN SkipEmptyLines(Tail(s)) ELSE s

\* readRecord's parseField loop.  line: what is left of the current line;
\* rest: the stream after it; rec: the fields completed so far.
RECURSIVE parseField(_, _, _), quotedField(_, _, _, _)
parseField(line, rest, rec) ==
    IF Len(line) = 0 \/ line[1] # "QUOTE"
    THEN \* non-quoted field: up to the next comma or the end of the line
         LET i == IndexOf(line, "COMMA")
         IN  IF i > 0
             THEN parseField(Drop(line, i), rest, Append(rec, SubSeq(line, 1, i - 1)))
             ELSE [header |-> Append(rec, SubSeq(line, 1, Len(line) - lengthNL(line))),
                   rest   |-> rest]
    ELSE quotedField(Tail(line), rest, <<>>, rec)

quotedField(line, rest, buf, rec) ==
    LET i == IndexOf(line, "QUOTE")
    IN  IF i > 0
        THEN LET b2 == buf \o SubSeq(line, 1, i - 1)
                 l2 == Drop(line, i)
             IN  IF Len(l2) > 0 /\ l2[1] = "QUOTE"
                 THEN \* "" : an escaped quote
                      quotedField(Tail(l2), rest, Append(b2, "QUOTE"), rec)
                 ELSE IF Len(l2) > 0 /\ l2[1] = "COMMA"
                 THEN \* ", : end of field
                      parseField(Tail(l2), rest, Append(rec, b2))
                 ELSE IF lengthNL(l2) = Len(l2)
                 THEN \* "\n : end of line
                      [header |-> Append(rec, b2), rest |-> rest]
                 ELSE \* a bare quote, kept because of LazyQuotes
                      quotedField(l2, rest, Append(b2, "QUOTE"), rec)
        ELSE IF Len(line) > 0
        THEN \* the quoted field runs on into the next line
             LET nl == ReadLine(rest)
             IN  quotedField(nl.line, nl.rest, buf \o line, rec)
        ELSE \* EOF inside the quoted field: accepted because of LazyQuotes
             [header |-> Append(rec, buf), rest |-> rest]

CsvErr == [err |-> TRUE, header |-> <<>>, rest |-> <<>>]

csvHeader(s) ==
    IF Len(s) < 3
    THEN CsvErr                       \* br.Peek(3) came back short: err # nil
    ELSE LET body  == IF SubSeq(s, 1, 3) = BOM THEN Drop(s, 3) ELSE s
             start == SkipEmptyLines(body)
         IN  IF Len(start) = 0
             THEN CsvErr              \* rr.Read(): io.EOF
             ELSE LET l == ReadLine(start)
                      r == parseField(l.line, l.rest, <<>>)
                  IN  [err |-> FALSE, header |-> r.header, rest |-> r.rest]


----------------------------------------------------------------------------
(* formatMap (src/main.go:248-261) and the regexp calls it makes.          *)
(*                                                                         *)
(* A compiled pattern is [atoms, group]: a sequence of atoms, each a       *)
(* letter or "." (any character), with at most one capturing group around  *)
(* atoms group[1]..group[2] (<<0, 0>>: no group).  <<"a", ".">> with group *)
(* <<2, 2>> is the regexp a(.) ; the empty sequence is the empty regexp.   *)
(* A template is a sequence of tokens: a literal character, "$$" (a        *)
(* literal dollar) or a group reference "$0", "$1", "$2" (${0}, ${1}, ...).*)
(* A match is Go's []int of 0-based offsets: <<lo, hi>> of the whole match *)
(* followed by <<lo, hi>> of the group when the pattern has one.           *)

AtomMatches(atom, ch) == atom = "." \/ atom = ch

MatchAt(pattern, content, pos) ==
    /\ pos + Len(pattern.atoms) <= Len(content)
    /\ \A j \in 1..Len(pattern.atoms) : AtomMatches(pattern.atoms[j], content[pos + j])

\* Regexp.doExecute from pos: the leftmost match starting at or after pos,
\* <<>> when there is none.
RECURSIVE doExecute(_, _, _)
doExecute(pattern, content, pos) ==
    IF pos > Len(content) THEN <<>>
    ELSE IF MatchAt(pattern, content, pos)
    THEN <<pos, pos + Len(pattern.atoms)>>
         \o (IF pattern.group = <<0, 0>> THEN <<>>
             ELSE <<pos + pattern.group[1] - 1, pos + pattern.group[2]>>)
    ELSE doExecute(pattern, content, pos + 1)

\* Regexp.allMatches, the loop behind FindAllStringSubmatchIndex(content, -1):
\* an empty match right after the previous match is dropped, and the scan
\* moves on by one character after an empty match.
RECURSIVE allMatches(_, _, _, _)
allMatches(pattern, content, pos, prevMatchEnd) ==
    IF pos > Len(content) THEN <<>>
    ELSE LET m == doExecute(pattern, content, pos)
         IN  IF m = <<>> THEN <<>>
             ELSE LET accept == ~(m[2] = pos /\ m[1] = prevMatchEnd)
                      next   == IF m[2] = pos THEN pos + 1 ELSE m[2]
                      more   == allMatches(pattern, content, next, m[2])
                  IN  IF accept THEN <<m>> \o more ELSE more

FindAllStringSubmatchIndex(pattern, content) == allMatches(pattern, content, 0, -1)

RefNum(tok) == CASE tok = "$0" -> 0 [] tok = "$1" -> 1 [] tok = "$2" -> 2 [] OTHER -> -1

\* Regexp.expand for one token of the template.
ExpandToken(tok, content, m) ==
    IF tok = "$$" THEN <<"$">>
    ELSE IF RefNum(tok) >= 0
    THEN LET num == RefNum(tok)
         IN  IF 2 * num + 1 < Len(m) /\ m[2 * num + 1] >= 0
             THEN SubSeq(content, m[2 * num + 1] + 1, m[2 * num + 2])
             ELSE <<>>
    ELSE <<tok>>

\* Regexp.ExpandString(dst, template, content, m): dst with the expansion appended.
RECURSIVE ExpandString(_, _, _, _)
ExpandString(dst, template, content, m) ==
    IF template = <<>> THEN dst
    ELSE ExpandString(dst \o ExpandToken(Head(template), content, m),
                      Tail(template), content, m)

\* The inner loop of formatMap: result after the matches from index i on.
RECURSIVE expandMatches(_, _, _, _, _)
expandMatches(result, template, content, matches, i) ==
    IF i > Len(matches) THEN result
    ELSE expandMatches(ExpandString(result, template, content, matches[i]),
                       template, content, matches, i + 1)

formatMapFirstOnly(templates, pattern, content) ==
    LET matches == FindAllStringSubmatchIndex(pattern, content)
    IN  [key \in DOMAIN templates |->
            IF matches = <<>> THEN <<>>
            ELSE ExpandString(<<>>, templates[key], content, matches[1])]

formatMap(templates, pattern, content) ==
    LET matches == FindAllStringSubmatchIndex(pattern, content)
    IN  [key \in DOMAIN templates |->
            expandMatches(<<>>, templates[key], content, matches, 1)]


----------------------------------------------------------------------------
(* Streams.  `streams` holds every byte stream a run opened; a reader is   *)
(* a handle on one of them, possibly wrapped in charset decoders           *)
(* (ChainedCloser, src/main.go:22-28), or Go's nil interface value.        *)

NilReader == [nil |-> TRUE, src |-> 0, decs |-> <<>>]

Handle(id) == [nil |-> FALSE, src |-> id, decs |-> <<>>]

NewStream(origin, data) == [origin |-> origin, data |-> data, open |-> TRUE, read |-> FALSE]

\* A Read on the reader dereferences a nil interface: the nil reader itself,
\* or a ChainedCloser that convert built around a nil reader.
ReadPanics(r) == r.nil \/ r.src = 0

MarkRead(ss, id) == [ss EXCEPT ![id].read = TRUE]

\* ChainedCloser.Close closes the stream under the decoders.
CloseStream(ss, id) == [ss EXCEPT ![id].open = FALSE]

\* The UTF-8 decoder behind charset.NewReaderLabel("utf-8", r): EF followed
\* by two continuation bytes is a well-formed sequence and passes; any other
\* high byte is replaced by U+FFFD (EF BF BD); the rest passes.
HighBytes == {"EF", "BB", "BF", "BD"}

ContinuationBytes == {"BB", "BF", "BD"}

RECURSIVE DecodeUtf8(_)
DecodeUtf8(s) ==
    IF s = <<>> THEN <<>>
    ELSE IF /\ s[1] = "EF" /\ Len(s) >= 3
            /\ s[2] \in ContinuationBytes /\ s[3] \in ContinuationBytes
    THEN SubSeq(s, 1, 3) \o DecodeUtf8(Drop(s, 3))
    ELSE IF s[1] \in HighBytes
    THEN <<"EF", "BF", "BD">> \o DecodeUtf8(Tail(s))
    ELSE <<s[1]>> \o DecodeUtf8(Tail(s))

\* charset.Lookup: the labels the index knows (only utf-8 is modelled).
KnownCharsets == {"utf-8"}

\* The decoders wrapped around a stream, innermost first; every label that
\* reaches a decoder is in KnownCharsets.
RECURSIVE DecodeAll(_, _)
DecodeAll(decs, data) ==
    IF decs = <<>> THEN data
    ELSE DecodeAll(Tail(decs), DecodeUtf8(data))

\* The bytes a consumer reads from reader r.
Data(ss, r) == DecodeAll(r.decs, ss[r.src].data)

\* archive/zip, over a container format that stands for it: "PK", then each
\* entry as "FH" followed by its bytes, then "CD".  Anything else is not an
\* archive.  The result lists the entries' contents in archive order.
RECURSIVE SplitEntries(_, _, _)
SplitEntries(s, cur, acc) ==
    IF s = <<>> THEN Append(acc, cur)
    ELSE IF s[1] = "FH" THEN SplitEntries(Tail(s), <<>>, Append(acc, cur))
    ELSE SplitEntries(Tail(s), Append(cur, s[1]), acc)

ZipParse(b) ==
    IF Len(b) >= 2 /\ b[1] = "PK" /\ b[Len(b)] = "CD"
    THEN LET inner == SubSeq(b, 2, Len(b) - 1)
         IN  IF inner = <<>> THEN [err |-> FALSE, files |-> <<>>]
             ELSE IF inner[1] # "FH" \/ "PK" \in {inner[i] : i \in 1..Len(inner)}
                                     \/ "CD" \in {inner[i] : i \in 1..Len(inner)}
             THEN [err |-> TRUE, files |-> <<>>]
             ELSE [err |-> FALSE, files |-> SplitEntries(Tail(inner), <<>>, <<>>)]
    ELSE [err |-> TRUE, files |-> <<>>]


----------------------------------------------------------------------------
(* The inputs of a run, drawn from small sets.                             *)

MaxTweaks == 2

EmptyMap == [k \in {} |-> <<>>]

Methods == {"", "GET"}

\* "G T" is not a valid HTTP method token: http.NewRequest rejects it.
ExtractionMethods == {"GET", "G T"}

PreUrls == {"", "http://pre"}

Urls == {"", "http://src"}

\* a(.) and the malformed (a
GoodPattern == [atoms |-> <<"a", ".">>, group |-> <<2, 2>>]

BadPattern == [atoms |-> <<"a">>, group |-> <<1, 2>>]

PatternSources == {GoodPattern, BadPattern}

PreExtractions ==
    [Method : Methods, Url : PreUrls, Body : {[q |-> <<"x">>]}, Pattern : PatternSources]

Bodies == {EmptyMap, [k1 |-> <<"$1">>], [k1 |-> <<"x", "$0">>, k2 |-> <<"$2">>]}

Extractions == [Method : ExtractionMethods, Url : Urls, Body : Bodies]

\* Args holds what t.Args["charset"] reads: "" when the key is absent.
TweakSet ==
    { [Call |-> "unzip",   Args |-> [charset |-> ""]],
      [Call |-> "convert", Args |-> [charset |-> "utf-8"]],
      [Call |-> "convert", Args |-> [charset |-> "bogus"]],
      [Call |-> "untar",   Args |-> [charset |-> ""]] }

Loadings == {[ProjectID |-> "p", DatasetID |-> "d", TableID |-> "t"]}

Requests ==
    [PreExtraction : PreExtractions, Extraction : Extractions,
     Tweaks : SeqsUpTo(TweakSet, MaxTweaks), Loading : Loadings]

\* Response bodies of the pre-extraction request.
PreContents == {<<"a", "b", "a", "a">>, <<"b">>}

CsvPlain == <<"a", "COMMA", "b", "LF", "a", "LF">>

CsvShort == <<"a", "LF">>

\* Response bodies of the primary request.
Payloads ==
    { CsvPlain,
      BOM \o <<"a", "LF", "b">>,
      CsvShort,
      <<>>,
      <<"BB", "COMMA", "a", "LF">>,
      <<"PK", "CD">>,
      <<"PK", "FH">> \o CsvPlain \o <<"CD">>,
      <<"PK", "FH">> \o CsvShort \o <<"FH">> \o CsvPlain \o <<"CD">>,
      <<"PK", "FH", "a">> }

----------------------------------------------------------------------------
(* request (src/main.go:30-53).  The transport's answer is the             *)
(* environment's choice: "NewRequest" (http.NewRequest failed), "Do" (the  *)
(* transport failed), "status" (a response with StatusCode > 299) or "ok". *)

ValidMethod(method) == method \in {"", "GET"}

RequestOutcomes(method, url) ==
    IF ~ValidMethod(method) THEN {"NewRequest"}
    ELSE IF url = "" THEN {"Do"}          \* unsupported protocol scheme
    ELSE {"Do", "status", "ok"}

\* The call as the transport sees it; the Content-Type header is set only
\* for a non-empty form.
RequestCall(who, method, url, body, outcome) ==
    [who |-> who, method |-> method, url |-> url, body |-> body,
     formHeader |-> (DOMAIN body # {}), outcome |-> outcome]

\* A response exists (and its Body is open) once Do succeeded.
ResponseOpened(outcome) == outcome \in {"status", "ok"}

\* request returns resp.Body only when the status is at most 299; on
\* "status" it returns the error and leaves resp.Body as it is.
requestStreams(ss, origin, data, outcome) ==
    IF ResponseOpened(outcome) THEN Append(ss, NewStream(origin, data)) ELSE ss

----------------------------------------------------------------------------
(* The tweaks (src/main.go:55-81, 161-179).  Each operator gives the set   *)
(* of results the call can have: [result, reader, streams] with result     *)
(* "ok", "err" or "panic".                                                 *)

TweakResult(result, r, ss) == [result |-> result, reader |-> r, streams |-> ss]

convert(label, r, ss) ==
    IF label \notin KnownCharsets
    THEN {TweakResult("err", NilReader, ss)}
    ELSE {TweakResult("ok",
                      [nil |-> FALSE, src |-> r.src, decs |-> Append(r.decs, label)],
                      ss)}

unzip(r, ss) ==
    IF ReadPanics(r)
    THEN {TweakResult("panic", NilReader, ss)}
    ELSE LET copied == MarkRead(ss, r.src)
             closed == CloseStream(copied, r.src)
             z      == ZipParse(Data(ss, r))
         IN  \* io.Copy failed: returns before reader.Close()
             {TweakResult("err", NilReader, copied)}
             \cup
             (IF z.err THEN {TweakResult("err", NilReader, closed)}
              ELSE IF Len(z.files) = 0 THEN {TweakResult("ok", NilReader, closed)}
              ELSE { \* r.File[0].Open() failed
                     TweakResult("err", NilReader, closed),
                     TweakResult("ok", Handle(Len(closed) + 1),
                                 Append(closed, NewStream("entry", z.files[1]))) })

tweakUnknownAsUnzip(t, r, ss) ==
    CASE t.Call = "convert" -> convert(t.Args["charset"], r, ss)
      [] OTHER              -> unzip(r, ss)

tweak(t, r, ss) ==
    CASE t.Call = "unzip"   -> unzip(r, ss)
      [] t.Call = "convert" -> convert(t.Args["charset"], r, ss)
      [] OTHER              -> {TweakResult("err", NilReader, ss)}


----------------------------------------------------------------------------
(* handler (src/main.go:196-246), one action per stage and outcome.        *)

ZeroExtraction == [Method |-> "", Url |-> "", Body |-> EmptyMap]

ZeroRequest ==
    [PreExtraction |-> [Method |-> "", Url |-> "", Body |-> EmptyMap,
                        Pattern |-> [atoms |-> <<>>, group |-> <<0, 0>>]],
     Extraction    |-> ZeroExtraction,
     Tweaks        |-> <<>>,
     Loading       |-> [ProjectID |-> "", DatasetID |-> "", TableID |-> ""]]

\* The destination table before any load job has written it.
Untouched == [written |-> FALSE, schema |-> <<>>, rows |-> <<>>]

HandlerInit ==
    /\ d = ZeroRequest
    /\ e = ZeroExtraction
    /\ reader = NilReader
    /\ ti = 1
    /\ streams = <<>>
    /\ resp = <<>>
    /\ proc = "running"
    /\ trace = <<>>
    /\ httpLog = <<>>
    /\ applied = <<>>
    /\ loadIn = <<>>
    /\ table = Untouched

Init ==
    /\ pc = "recv"
    /\ HandlerInit
    /\ inp = <<>>
    /\ out = <<>>

Stage(stage, result) == [stage |-> stage, result |-> result]

\* w.WriteHeader(http.StatusInternalServerError); fmt.Fprintln(...); return
Respond500 ==
    /\ resp' = Append(resp, 500)
    /\ pc' = "done"

\* A panic leaves the handler: net/http recovers it, logs it and drops the
\* connection; nothing is written to w.
Panic ==
    /\ proc' = "panicked"
    /\ pc' = "done"
    /\ UNCHANGED resp

DecodeFail ==
    /\ pc = "recv"
    /\ trace' = Append(trace, Stage("decode", "err"))
    /\ Respond500
    /\ UNCHANGED <<d, e, reader, ti, streams, proc, httpLog, applied, loadIn, table, inp, out>>

DecodeOk ==
    /\ pc = "recv"
    /\ \E req \in Requests : d' = req
    /\ trace' = Append(trace, Stage("decode", "ok"))
    /\ pc' = "pre"
    /\ UNCHANGED <<e, reader, ti, streams, resp, proc, httpLog, applied, loadIn, table, inp, out>>

(* PreExtraction.preExtract (src/main.go:270-294).                         *)

preExtractFastEither(p) == p.Method = "" \/ p.Url = ""

preExtractFast(p) == p.Method = "" /\ p.Url = ""

\* regexp.Compile: the source is well formed when its group, if any, lies
\* within the atoms.
WellFormed(src) ==
    \/ src.group = <<0, 0>>
    \/ 1 <= src.group[1] /\ src.group[1] <= src.group[2] /\ src.group[2] <= Len(src.atoms)

PreExtractSkip ==
    /\ pc = "pre"
    /\ preExtractFast(d.PreExtraction)
    /\ e' = d.Extraction
    /\ trace' = Append(trace, Stage("pre", "ok"))
    /\ pc' = "fetch"
    /\ UNCHANGED <<d, reader, ti, streams, resp, proc, httpLog, applied, loadIn, table, inp, out>>

PreExtractRequestFail ==
    /\ pc = "pre"
    /\ ~preExtractFast(d.PreExtraction)
    /\ \E o \in RequestOutcomes(d.PreExtraction.Method, d.PreExtraction.Url) \ {"ok"},
          content \in PreContents :
         /\ httpLog' = Append(httpLog, RequestCall("pre", d.PreExtraction.Method,
                                  d.PreExtraction.Url, d.PreExtraction.Body, o))
         /\ streams' = requestStreams(streams, "pre", content, o)
    /\ e' = d.Extraction
    /\ trace' = Append(trace, Stage("pre", "err"))
    /\ Respond500
    /\ UNCHANGED <<d, reader, ti, proc, applied, loadIn, table, inp, out>>

\* io.ReadAll failed: log.Fatal ends the process; the deferred Close does not run.
PreExtractReadFatal ==
    /\ pc = "pre"
    /\ ~preExtractFast(d.PreExtraction)
    /\ "ok" \in RequestOutcomes(d.PreExtraction.Method, d.PreExtraction.Url)
    /\ \E content \in PreContents :
         streams' = MarkRead(requestStreams(streams, "pre", content, "ok"), Len(streams) + 1)
    /\ httpLog' = Append(httpLog, RequestCall("pre", d.PreExtraction.Method,
                             d.PreExtraction.Url, d.PreExtraction.Body, "ok"))
    /\ trace' = Append(trace, Stage("pre", "fatal"))
    /\ proc' = "exited"
    /\ pc' = "done"
    /\ UNCHANGED <<d, e, reader, ti, resp, applied, loadIn, table, inp, out>>

\* regexp.MustCompile panics on a malformed pattern; the deferred Close runs.
PreExtractPatternPanic ==
    /\ pc = "pre"
    /\ ~preExtractFast(d.PreExtraction)
    /\ "ok" \in RequestOutcomes(d.PreExtraction.Method, d.PreExtraction.Url)
    /\ ~WellFormed(d.PreExtraction.Pattern)
    /\ \E content \in PreContents :
         streams' = CloseStream(MarkRead(requestStreams(streams, "pre", content, "ok"),
                                         Len(streams) + 1), Len(streams) + 1)
    /\ httpLog' = Append(httpLog, RequestCall("pre", d.PreExtraction.Method,
                             d.PreExtraction.Url, d.PreExtraction.Body, "ok"))
    /\ trace' = Append(trace, Stage("pre", "panic"))
    /\ Panic
    /\ UNCHANGED <<d, e, reader, ti, applied, loadIn, table, inp, out>>

PreExtractOk ==
    /\ pc = "pre"
    /\ ~preExtractFast(d.PreExtraction)
    /\ "ok" \in RequestOutcomes(d.PreExtraction.Method, d.PreExtraction.Url)
    /\ WellFormed(d.PreExtraction.Pattern)
    /\ \E content \in PreContents :
         /\ streams' = CloseStream(MarkRead(requestStreams(streams, "pre", content, "ok"),
                                            Len(streams) + 1), Len(streams) + 1)
         /\ e' = [Method |-> d.Extraction.Method,
                  Url    |-> d.Extraction.Url,
                  Body   |-> formatMap(d.Extraction.Body, d.PreExtraction.Pattern, content)]
    /\ httpLog' = Append(httpLog, RequestCall("pre", d.PreExtraction.Method,
                             d.PreExtraction.Url, d.PreExtraction.Body, "ok"))
    /\ trace' = Append(trace, Stage("pre", "ok"))
    /\ pc' = "fetch"
    /\ UNCHANGED <<d, reader, ti, resp, proc, applied, loadIn, table, inp, out>>

(* The primary request (src/main.go:219-226).                              *)

FetchAbortNoReturn ==
    /\ resp' = Append(resp, 500)
    /\ pc' = "tweaks"

FetchAbort == Respond500

FetchFail ==
    /\ pc = "fetch"
    /\ \E o \in RequestOutcomes(e.Method, e.Url) \ {"ok"}, payload \in Payloads :
         /\ httpLog' = Append(httpLog, RequestCall("primary", e.Method, e.Url, e.Body, o))
         /\ streams' = requestStreams(streams, "primary", payload, o)
    /\ reader' = NilReader
    /\ trace' = Append(trace, Stage("fetch", "err"))
    /\ FetchAbort
    /\ UNCHANGED <<d, e, ti, proc, applied, loadIn, table, inp, out>>

FetchOk ==
    /\ pc = "fetch"
    /\ "ok" \in RequestOutcomes(e.Method, e.Url)
    /\ \E payload \in Payloads :
         streams' = requestStreams(streams, "primary", payload, "ok")
    /\ httpLog' = Append(httpLog, RequestCall("primary", e.Method, e.Url, e.Body, "ok"))
    /\ reader' = Handle(Len(streams) + 1)
    /\ trace' = Append(trace, Stage("fetch", "ok"))
    /\ pc' = "tweaks"
    /\ UNCHANGED <<d, e, ti, resp, proc, applied, loadIn, table, inp, out>>

(* The range loop over d.Tweaks (src/main.go:228-236).                     *)

NextTweakReversed(tweaks, i) == tweaks[Len(tweaks) + 1 - i]

NextTweak(tweaks, i) == tweaks[i]

Applied(t, r, res) == [tweak |-> t, in |-> r, out |-> res.reader, result |-> res.result]

TweakOk ==
    /\ pc = "tweaks"
    /\ ti <= Len(d.Tweaks)
    /\ \E res \in tweak(NextTweak(d.Tweaks, ti), reader, streams) :
         /\ res.result = "ok"
         /\ reader' = res.reader
         /\ streams' = res.streams
         /\ applied' = Append(applied, Applied(NextTweak(d.Tweaks, ti), reader, res))
    /\ ti' = ti + 1
    /\ trace' = Append(trace, Stage("tweak", "ok"))
    /\ UNCHANGED <<pc, d, e, resp, proc, httpLog, loadIn, table, inp, out>>

TweakErr ==
    /\ pc = "tweaks"
    /\ ti <= Len(d.Tweaks)
    /\ \E res \in tweak(NextTweak(d.Tweaks, ti), reader, streams) :
         /\ res.result = "err"
         /\ reader' = res.reader
         /\ streams' = res.streams
         /\ applied' = Append(applied, Applied(NextTweak(d.Tweaks, ti), reader, res))
    /\ trace' = Append(trace, Stage("tweak", "err"))
    /\ Respond500
    /\ UNCHANGED <<d, e, ti, proc, httpLog, loadIn, table, inp, out>>

TweakPanic ==
    /\ pc = "tweaks"
    /\ ti <= Len(d.Tweaks)
    /\ \E res \in tweak(NextTweak(d.Tweaks, ti), reader, streams) :
         /\ res.result = "panic"
         /\ streams' = res.streams
         /\ applied' = Append(applied, Applied(NextTweak(d.Tweaks, ti), reader, res))
    /\ trace' = Append(trace, Stage("tweak", "panic"))
    /\ Panic
    /\ UNCHANGED <<d, e, reader, ti, httpLog, loadIn, table, inp, out>>


(* load (src/main.go:102-141), called at src/main.go:238.                  *)

LoadReached == pc = "tweaks" /\ ti > Len(d.Tweaks)

\* invalidCharacters.ReplaceAllString(v, "_"): letters stay; every other
\* character becomes "_".  A well-formed three-byte sequence is one
\* character (U+FEFF or U+FFFD here, neither a letter); any other high byte
\* is read as one ill-formed character.
RECURSIVE Sanitize(_)
Sanitize(v) ==
    IF v = <<>> THEN <<>>
    ELSE IF v[1] \in {"a", "b", "x"} THEN <<v[1]>> \o Sanitize(Tail(v))
    ELSE IF /\ v[1] = "EF" /\ Len(v) >= 3
            /\ v[2] \in ContinuationBytes /\ v[3] \in ContinuationBytes
    THEN <<"_">> \o Sanitize(Drop(v, 3))
    ELSE <<"_">> \o Sanitize(Tail(v))

\* What a finished load job leaves in the table (WriteTruncate).
Written(h) ==
    [written |-> TRUE,
     schema  |-> [i \in 1..Len(h.header) |-> Sanitize(h.header[i])],
     rows    |-> h.rest]

\* The deferred r.Close() of load, after csvHeader has read from r.
ReadAndClosed(ss, r) == CloseStream(MarkRead(ss, r.src), r.src)

\* bufio's first Read dereferences the nil reader: csvHeader panics before
\* load reaches its defer.
LoadPanic ==
    /\ LoadReached
    /\ ReadPanics(reader)
    /\ loadIn' = Append(loadIn, reader)
    /\ trace' = Append(trace, Stage("header", "panic"))
    /\ Panic
    /\ UNCHANGED <<d, e, reader, ti, streams, httpLog, applied, table, inp, out>>

\* csvHeader returned an error: the stream broke while it was read, or
\* Peek(3) or the first record could not be read.
LoadHeaderErr ==
    /\ LoadReached
    /\ ~ReadPanics(reader)
    /\ \E readOk \in BOOLEAN : ~readOk \/ csvHeader(Data(streams, reader)).err
    /\ loadIn' = Append(loadIn, reader)
    /\ streams' = ReadAndClosed(streams, reader)
    /\ trace' = Append(trace, Stage("header", "err"))
    /\ Respond500
    /\ UNCHANGED <<d, e, reader, ti, proc, httpLog, applied, table, inp, out>>

\* The header was read and a later step of load failed: "client"
\* (bigquery.NewClient), "run" (loader.Run), "wait" (job.Wait: the job may
\* have finished all the same) or "status" (the job failed).
LoadJobErr ==
    /\ LoadReached
    /\ ~ReadPanics(reader)
    /\ ~csvHeader(Data(streams, reader)).err
    /\ \E o \in {"client", "run", "wait", "status"} :
         /\ table' \in (IF o = "wait"
                        THEN {table, Written(csvHeader(Data(streams, reader)))}
                        ELSE {table})
         /\ trace' = trace \o <<Stage("header", "ok")>>
                           \o (IF o = "client" THEN <<>> ELSE <<Stage("load", "err")>>)
    /\ loadIn' = Append(loadIn, reader)
    /\ streams' = ReadAndClosed(streams, reader)
    /\ Respond500
    /\ UNCHANGED <<d, e, reader, ti, proc, httpLog, applied, inp, out>>

LoadOk ==
    /\ LoadReached
    /\ ~ReadPanics(reader)
    /\ ~csvHeader(Data(streams, reader)).err
    /\ table' = Written(csvHeader(Data(streams, reader)))
    /\ loadIn' = Append(loadIn, reader)
    /\ streams' = ReadAndClosed(streams, reader)
    /\ trace' = trace \o <<Stage("header", "ok"), Stage("load", "ok")>>
    /\ resp' = Append(resp, 200)
    /\ pc' = "done"
    /\ UNCHANGED <<d, e, reader, ti, proc, httpLog, applied, inp, out>>

Next ==
    \/ DecodeFail
    \/ DecodeOk
    \/ PreExtractSkip
    \/ PreExtractRequestFail
    \/ PreExtractReadFatal
    \/ PreExtractPatternPanic
    \/ PreExtractOk
    \/ FetchFail
    \/ FetchOk
    \/ TweakOk
    \/ TweakErr
    \/ TweakPanic
    \/ LoadPanic
    \/ LoadHeaderErr
    \/ LoadJobErr
    \/ LoadOk

Spec == Init /\ [][Next]_vars


----------------------------------------------------------------------------
(* formatMap on its own: the arguments are drawn in InitFormat, the call   *)
(* is one action.                                                          *)

MaxContentLen == 3

MaxTemplateLen == 2

FmtAlphabet == {"a", "b"}

TemplateTokens == {"x", "$0", "$1", "$2", "$$"}

Templates == SeqsUpTo(TemplateTokens, MaxTemplateLen)

SecondTemplates == {<<"$0">>, <<"x", "$1">>}

TemplateMaps ==
    {EmptyMap}
    \cup {[k1 |-> t] : t \in Templates}
    \cup {[k1 |-> t, k2 |-> u] : t \in Templates, u \in SecondTemplates}

\* the regexps  (empty)  a  (a)  a(.)  (.)b  .  (ab)
FmtPatterns ==
    { [atoms |-> <<>>,         group |-> <<0, 0>>],
      [atoms |-> <<"a">>,      group |-> <<0, 0>>],
      [atoms |-> <<"a">>,      group |-> <<1, 1>>],
      [atoms |-> <<"a", ".">>, group |-> <<2, 2>>],
      [atoms |-> <<".", "b">>, group |-> <<1, 1>>],
      [atoms |-> <<".">>,      group |-> <<0, 0>>],
      [atoms |-> <<"a", "b">>, group |-> <<1, 2>>] }

FormatInputs ==
    [templates : TemplateMaps, pattern : FmtPatterns,
     content : SeqsUpTo(FmtAlphabet, MaxContentLen)]

InitFormat ==
    /\ pc = "fmt"
    /\ HandlerInit
    /\ inp \in FormatInputs
    /\ out = EmptyMap

FormatMapCall ==
    /\ pc = "fmt"
    /\ out' = formatMap(inp.templates, inp.pattern, inp.content)
    /\ pc' = "fmtDone"
    /\ UNCHANGED <<d, e, reader, ti, streams, resp, proc, trace, httpLog, applied,
                   loadIn, table, inp>>

NextFormat == FormatMapCall

SpecFormat == InitFormat /\ [][NextFormat]_vars

----------------------------------------------------------------------------
(* csvHeader on its own: the stream is drawn in InitCsv, the call is one   *)
(* action.                                                                 *)

MaxStreamLen == 5

CsvBytes == {"EF", "BB", "BF", "a", "COMMA", "LF", "QUOTE"}

InitCsv ==
    /\ pc = "csv"
    /\ HandlerInit
    /\ inp \in SeqsUpTo(CsvBytes, MaxStreamLen)
    /\ out = CsvErr

CsvHeaderCall ==
    /\ pc = "csv"
    /\ out' = csvHeader(inp)
    /\ pc' = "csvDone"
    /\ UNCHANGED <<d, e, reader, ti, streams, resp, proc, trace, httpLog, applied,
                   loadIn, table, inp>>

NextCsv == CsvHeaderCall

SpecCsv == InitCsv /\ [][NextCsv]_vars


----------------------------------------------------------------------------
(* Properties.  What the handler's run has done is read off the record it  *)
(* leaves: trace, httpLog, applied, loadIn, streams, resp, table.          *)

KnownCalls == {"unzip", "convert"}

Calls(who) == SelectSeq(httpLog, LAMBDA c : c.who = who)

TweaksOk == Len(SelectSeq(trace, LAMBDA st : st.stage = "tweak" /\ st.result = "ok"))

StageSeen(stage) == \E i \in 1..Len(trace) : trace[i].stage = stage

StageOk(stage) == \E i \in 1..Len(trace) : trace[i] = Stage(stage, "ok")

\* The stages of a complete run of request d, in the order the spec gives.
CanonicalStages(req) ==
    <<"decode", "pre", "fetch">>
    \o [i \in 1..Len(req.Tweaks) |-> "tweak"]
    \o <<"header", "load">>

HasUnknownCall(tweaks) == \E i \in 1..Len(tweaks) : tweaks[i].Call \notin KnownCalls

\* The handle request() returned for the primary response body.
FetchedReader ==
    Handle(CHOOSE i \in 1..Len(streams) : streams[i].origin = "primary")

\* C1: Load is invoked only after pre-extraction, the primary fetch and every
\* declared tweak have succeeded; no stage runs after the first stage that
\* failed; the table is written only by a run that reached the load job.
C1_LoadOnlyAfterAllStages ==
    /\ \A i \in 1..(Len(trace) - 1) : trace[i].result = "ok"
    /\ (Len(loadIn) > 0 \/ StageSeen("header") \/ StageSeen("load"))
          => /\ StageOk("pre")
             /\ StageOk("fetch")
             /\ TweaksOk = Len(d.Tweaks)
    /\ Len(loadIn) <= 1
    /\ table.written => StageSeen("load")
    /\ (pc = "done" /\ ~StageSeen("load")) => table = Untouched

\* A run that aborted at its first tweak with a second tweak still declared.
C1_Witness ==
    /\ pc = "done"
    /\ Len(d.Tweaks) = 2
    /\ Len(applied) = 1
    /\ trace[Len(trace)] = Stage("tweak", "err")
    /\ loadIn = <<>>
    /\ resp = <<500>>

\* C2: every request ends with exactly one response, 200 when every stage
\* succeeded and 500 on any failure, and no failure ends the run without
\* that response or ends the process.
C2_AlwaysOneResponse ==
    pc = "done" =>
        /\ proc = "running"
        /\ Len(resp) = 1
        /\ (resp[1] = 200) <=> (trace[Len(trace)] = Stage("load", "ok"))
        /\ (resp[1] = 500) <=> (trace[Len(trace)].result # "ok")

\* A malformed pattern: the handler panicked and wrote nothing.
C2_Witness ==
    /\ pc = "done"
    /\ trace[Len(trace)] = Stage("pre", "panic")
    /\ proc = "panicked"
    /\ resp = <<>>

\* C3: when a run has ended, every stream it opened has been closed.
C3_AllStreamsClosed ==
    pc = "done" => \A i \in 1..Len(streams) : ~streams[i].open

\* convert refused the charset label and the run ended with the primary
\* response body still open.
C3_Witness ==
    /\ pc = "done"
    /\ proc = "running"
    /\ Len(applied) = 1
    /\ applied[1].tweak.Call = "convert"
    /\ applied[1].result = "err"
    /\ streams[applied[1].in.src].open

\* C4: the stages run in the order pre-extraction, fetch, tweaks, header,
\* load; tweak i of the run is the i-th declared tweak and reads what the
\* stage before it returned; a successful run applied every declared tweak;
\* load gets the last tweak's stream, the fetched stream itself when no tweak
\* is declared.
C4_StagesAndTweaksInOrder ==
    /\ Len(trace) <= Len(CanonicalStages(d))
    /\ \A i \in 1..Len(trace) : trace[i].stage = CanonicalStages(d)[i]
    /\ Len(applied) <= Len(d.Tweaks)
    /\ \A i \in 1..Len(applied) :
         /\ applied[i].tweak = d.Tweaks[i]
         /\ applied[i].in = (IF i = 1 THEN FetchedReader ELSE applied[i - 1].out)
    /\ resp = <<200>> =>
         /\ Len(applied) = Len(d.Tweaks)
         /\ \A i \in 1..Len(applied) : applied[i].result = "ok"
    /\ Len(loadIn) > 0 =>
         loadIn[1] = (IF d.Tweaks = <<>> THEN FetchedReader
                      ELSE applied[Len(applied)].out)

\* A successful run with two different tweaks, unzip then convert.
C4_Witness ==
    /\ resp = <<200>>
    /\ Len(d.Tweaks) = 2
    /\ d.Tweaks[1].Call = "unzip"
    /\ d.Tweaks[2].Call = "convert"
    /\ table.written


(* The expansion the spec describes, stated without the code's loops.      *)

RECURSIVE Flat(_)
Flat(ss) == IF ss = <<>> THEN <<>> ELSE Head(ss) \o Flat(Tail(ss))

\* The text a template token stands for in match m of content.
TokenText(tok, content, m) ==
    CASE tok = "$$" -> <<"$">>
      [] tok = "$0" -> SubSeq(content, m[1] + 1, m[2])
      [] tok = "$1" -> IF Len(m) >= 4 THEN SubSeq(content, m[3] + 1, m[4]) ELSE <<>>
      [] tok = "$2" -> <<>>
      [] OTHER      -> <<tok>>

ExpandedOnce(template, content, m) ==
    Flat([j \in 1..Len(template) |-> TokenText(template[j], content, m)])

ExpandedOverAll(template, content, ms) ==
    Flat([i \in 1..Len(ms) |-> ExpandedOnce(template, content, ms[i])])

\* ms is the list of all non-overlapping matches, left to right: every entry
\* is a match with its group in place, the entries are in order and do not
\* overlap, and every place where the pattern matches is the start of an
\* entry or lies inside an earlier-starting one.
IsAllMatches(pattern, content, ms) ==
    /\ \A i \in 1..Len(ms) :
         /\ MatchAt(pattern, content, ms[i][1])
         /\ ms[i][2] = ms[i][1] + Len(pattern.atoms)
         /\ Len(ms[i]) = (IF pattern.group = <<0, 0>> THEN 2 ELSE 4)
         /\ pattern.group # <<0, 0>> =>
              /\ ms[i][3] = ms[i][1] + pattern.group[1] - 1
              /\ ms[i][4] = ms[i][1] + pattern.group[2]
    /\ \A i \in 1..(Len(ms) - 1) :
         /\ ms[i][2] <= ms[i + 1][1]
         /\ ms[i][1] < ms[i + 1][1]
    /\ \A q \in 0..Len(content) :
         MatchAt(pattern, content, q) =>
            \E i \in 1..Len(ms) : ms[i][1] = q \/ (ms[i][1] < q /\ q < ms[i][2])

\* C5: with method and url both empty preExtract returns the base extraction
\* as it is and sends no request; otherwise it sends exactly one request,
\* and on success returns the base method and url with the body expanded
\* key by key against the response.
C5_PreExtractFrame ==
    Len(trace) >= 2 =>
        IF d.PreExtraction.Method = "" /\ d.PreExtraction.Url = ""
        THEN /\ e = d.Extraction
             /\ Calls("pre") = <<>>
             /\ trace[2] = Stage("pre", "ok")
        ELSE /\ Len(Calls("pre")) = 1
             /\ Calls("pre")[1].method = d.PreExtraction.Method
             /\ Calls("pre")[1].url = d.PreExtraction.Url
             /\ Calls("pre")[1].body = d.PreExtraction.Body
             /\ trace[2] = Stage("pre", "ok") =>
                  /\ e.Method = d.Extraction.Method
                  /\ e.Url = d.Extraction.Url
                  /\ DOMAIN e.Body = DOMAIN d.Extraction.Body
                  /\ \A k \in DOMAIN e.Body :
                       e.Body[k] =
                         ExpandedOverAll(d.Extraction.Body[k], streams[1].data,
                             FindAllStringSubmatchIndex(d.PreExtraction.Pattern,
                                                        streams[1].data))

\* A configured pre-extraction that succeeded and changed the body.
C5_Witness ==
    /\ pc = "fetch"
    /\ d.PreExtraction.Method # ""
    /\ Len(Calls("pre")) = 1
    /\ DOMAIN e.Body = {"k1", "k2"}
    /\ e.Body # d.Extraction.Body

\* C6: formatMap gives, for every template name and no other, the
\* concatenation in match order of the template expanded against every
\* non-overlapping match; with no match every name maps to the empty string,
\* and an empty templates mapping gives an empty mapping.
C6_FormatMapConcatenatesAllMatches ==
    pc = "fmtDone" =>
        LET ms == FindAllStringSubmatchIndex(inp.pattern, inp.content)
        IN  /\ IsAllMatches(inp.pattern, inp.content, ms)
            /\ DOMAIN out = DOMAIN inp.templates
            /\ \A k \in DOMAIN inp.templates :
                 /\ out[k] = ExpandedOverAll(inp.templates[k], inp.content, ms)
                 /\ ms = <<>> => out[k] = <<>>
            /\ inp.templates = EmptyMap => out = EmptyMap

\* Two matches, and a value that is more than the first match's expansion.
C6_Witness ==
    /\ pc = "fmtDone"
    /\ Len(FindAllStringSubmatchIndex(inp.pattern, inp.content)) >= 2
    /\ \E k \in DOMAIN out :
         /\ out[k] # <<>>
         /\ out[k] # ExpandedOnce(inp.templates[k], inp.content,
                        FindAllStringSubmatchIndex(inp.pattern, inp.content)[1])

C8_NullStreamIsNoData ==
    /\ \A i \in 1..Len(applied) :
         (applied[i].tweak.Call = "unzip" /\ applied[i].result = "ok") =>
            LET z == ZipParse(Data(streams, applied[i].in))
            IN  /\ ~z.err
                /\ applied[i].out.nil <=> z.files = <<>>
                /\ ~applied[i].out.nil => Data(streams, applied[i].out) = z.files[1]
    /\ (pc = "done" /\ \E i \in 1..Len(applied) :
                          applied[i].result = "ok" /\ applied[i].out.nil)
          => (proc = "running" /\ Len(resp) = 1)

\* unzip of an archive without entries, then load on the nil stream.
C8_Witness ==
    /\ pc = "done"
    /\ Len(d.Tweaks) = 1
    /\ Len(applied) = 1
    /\ applied[1].tweak.Call = "unzip"
    /\ applied[1].result = "ok"
    /\ applied[1].out.nil
    /\ trace[Len(trace)] = Stage("header", "panic")
    /\ resp = <<>>

\* C9: when the pre-extraction request succeeded and its body was read, a
\* malformed pattern makes preExtract return an error, which the handler
\* answers with a 500; and no failed pre-extraction is followed by a primary
\* request or a load.
C9_BadPatternReturnsError ==
    /\ (/\ Len(trace) >= 2
        /\ ~WellFormed(d.PreExtraction.Pattern)
        /\ Len(Calls("pre")) = 1
        /\ Calls("pre")[1].outcome = "ok"
        /\ trace[2].result # "fatal")
          => /\ trace[2] = Stage("pre", "err")
             /\ resp = <<500>>
             /\ proc = "running"
    /\ (Len(trace) >= 2 /\ trace[2].result # "ok")
          => (Calls("primary") = <<>> /\ loadIn = <<>>)

\* The pre-extraction request succeeded, the pattern is malformed, and
\* preExtract panicked instead of returning.
C9_Witness ==
    /\ Len(trace) = 2
    /\ ~WellFormed(d.PreExtraction.Pattern)
    /\ Len(Calls("pre")) = 1
    /\ Calls("pre")[1].outcome = "ok"
    /\ trace[2].result = "panic"
    /\ Calls("primary") = <<>>

\* A stream holds a record when, after a leading byte-order mark, some byte
\* is not a line terminator.
StripBom(s) == IF Len(s) >= 3 /\ SubSeq(s, 1, 3) = BOM THEN Drop(s, 3) ELSE s

HoldsRecord(s) == \E i \in 1..Len(StripBom(s)) : StripBom(s)[i] # "LF"

\* C10: csvHeader returns a header for every stream that holds a record,
\* however short, leaves the stream right after the header's last line,
\* drops the byte-order mark and nothing else, and fails only when the
\* stream holds no record.
C10_HeaderForEveryRecord ==
    pc = "csvDone" =>
        /\ HoldsRecord(inp) =>
             /\ ~out.err
             /\ Len(out.header) >= 1
             /\ Len(out.rest) < Len(StripBom(inp))
             /\ out.rest = Drop(StripBom(inp), Len(StripBom(inp)) - Len(out.rest))
             /\ \/ out.rest = <<>>
                \/ StripBom(inp)[Len(StripBom(inp)) - Len(out.rest)] = "LF"
        /\ out.err => ~HoldsRecord(inp)

\* The stream a LF holds the record a and is refused.
C10_Witness ==
    /\ pc = "csvDone"
    /\ inp = <<"a", "LF">>
    /\ HoldsRecord(inp)
    /\ out.err

====
